---- MODULE Spec2Model ----
(***************************************************************************)
(* A model of static-dominator: the HTML emitter of src/src/lib.rs         *)
(* (StaticDom: normalization passes, as_html, format_node) and the         *)
(* Markdown emitter of src/src/markdown.rs (StaticMarkdownWriter).         *)
(*                                                                         *)
(* The two emitters share no state.  SpecHtml runs the HTML emitter on     *)
(* every parse tree within the bounds, SpecMd runs the Markdown emitter on *)
(* every event stream within the bounds.                                   *)
(***************************************************************************)
EXTENDS Integers, Sequences, FiniteSets, TLC

(***************************************************************************)
(* Bounds of the model.                                                    *)
(***************************************************************************)
\* Largest number of nodes the parser attaches below the <html> element.
MaxNodes == 5
\* Deepest nesting of Start events in a Markdown event stream.
MaxDepth == 2
\* Largest number of container lines a Markdown event stream opens.
MaxOpened == 2

(***************************************************************************)
(* The Parsed Document: ego_tree::Tree<scraper::Node>.                     *)
(* A node is a record; only Elements (and the Fragment root) have          *)
(* children.  A node is identified by its path: the child indices that     *)
(* lead to it from the <html> element in the tree as it is when a pass     *)
(* starts (every pass collects its ids before it detaches anything, so a   *)
(* path names one node throughout the pass, as an ego_tree NodeId does).   *)
(* Text contents are sequences of one-character strings.                   *)
(***************************************************************************)
MkNode(k, n, t, c) == [kind |-> k, name |-> n, text |-> t, children |-> c]

\* Tag names the parser may produce; "escape" is the escape hatch.
ElementNames == {"div", "escape"}

\* Text contents the parser may produce: whitespace only (a line break and
\* indentation between two tags), and text with whitespace on both sides
\* that spans two lines.  The parser never produces an empty Text node.
TextContents == {<<"\n", " ">>, <<" ", "x", "\n", "y", " ">>}

\* Node variants that are neither Element nor Text and can stand below
\* <html> (Fragment is the root; the code treats every such variant alike).
OtherKinds == {"Comment", "ProcessingInstruction"}

\* char::is_whitespace, on the characters of TextContents.
Whitespace == {" ", "\n", "\t", "\r"}

Leaves ==
  {MkNode("Text", "", t, <<>>) : t \in TextContents}
    \cup {MkNode(k, "", <<>>, <<>>) : k \in OtherKinds}
    \cup {MkNode("Element", nm, <<>>, <<>>) : nm \in ElementNames}

\* The number of nodes below n.
RECURSIVE NodeCount(_)
RECURSIVE NodeCountFrom(_, _)
NodeCountFrom(n, i) ==
  IF i > Len(n.children) THEN 0
  ELSE 1 + NodeCount(n.children[i]) + NodeCountFrom(n, i + 1)
NodeCount(n) == NodeCountFrom(n, 1)

\* Whether the tree builder can append new to the open element that is d
\* levels down the last-child chain of n.  The parser appends text to a
\* preceding Text sibling instead of adding a node, so no two Text nodes
\* are adjacent in a tree as parsed.
RECURSIVE CanAppend(_, _, _)
CanAppend(n, d, new) ==
  /\ n.kind = "Element"
  /\ IF d = 0
     THEN IF n.children = <<>> \/ new.kind # "Text" THEN TRUE
          ELSE n.children[Len(n.children)].kind # "Text"
     ELSE IF n.children = <<>> THEN FALSE
          ELSE CanAppend(n.children[Len(n.children)], d - 1, new)

\* TreeSink::append: new becomes the last child of that open element.
RECURSIVE AppendTo(_, _, _)
AppendTo(n, d, new) ==
  IF d = 0 THEN [n EXCEPT !.children = Append(@, new)]
  ELSE [n EXCEPT !.children[Len(n.children)] = AppendTo(@, d - 1, new)]

VARIABLES
  tree,    \* StaticDom.inner
  trim,    \* StaticDom.trim
  pc,      \* position of the HTML pipeline: from_str's passes, then as_html
  out,     \* what as_html has written to the formatter
  calls,   \* log of the format_node invocations as_html made
  ids      \* the HashSet<NodeId> the last normalization pass detached

htmlVars == <<tree, trim, pc, out, calls, ids>>

VARIABLES
  indent,           \* StaticMarkdownWriter.indent, a u32
  overflow_checks,  \* whether the build checks integer overflow
  md,               \* position of StaticMarkdownWriter::fmt
  event,            \* the event fmt_event was last given
  written,          \* what fmt_event wrote for that event
  open,             \* the tags of the Start events not yet closed
  unmatched,        \* whether an End came that no Start matches
  nOpened,          \* container lines opened by Start events so far
  nClosed           \* container lines closed by End events so far

mdVars == <<indent, overflow_checks, md, event, written, open, unmatched,
            nOpened, nClosed>>

vars == <<htmlVars, mdVars>>

\* StaticDom::get_html: the only child of the Fragment root.
GetHtml(t) == t.children[1]

\* str::trim: leading and trailing whitespace removed.
RECURSIVE TrimStart(_)
TrimStart(s) ==
  IF s # <<>> /\ s[1] \in Whitespace THEN TrimStart(Tail(s)) ELSE s

RECURSIVE TrimEnd(_)
TrimEnd(s) ==
  IF s # <<>> /\ s[Len(s)] \in Whitespace THEN TrimEnd(SubSeq(s, 1, Len(s) - 1)) ELSE s

Trim(s) == TrimEnd(TrimStart(s))

\* str::lines: split at line breaks; a final line break adds no empty line.
RECURSIVE UntilNewline(_)
UntilNewline(s) ==
  IF s = <<>> \/ s[1] = "\n" THEN <<>> ELSE <<s[1]>> \o UntilNewline(Tail(s))

RECURSIVE Lines(_)
Lines(s) ==
  IF s = <<>> THEN <<>>
  ELSE LET first == UntilNewline(s)
           rest == SubSeq(s, Len(first) + 2, Len(s))
       IN <<first>> \o Lines(rest)

\* The node with the given path below n.
RECURSIVE NodeAt(_, _)
NodeAt(n, path) ==
  IF path = <<>> THEN n ELSE NodeAt(n.children[path[1]], Tail(path))

\* NodeMut::detach for every id of the set: n without these nodes.  A node
\* keeps the path it had when the ids were collected.
RECURSIVE DetachAll(_, _, _)
DetachAll(n, path, idset) ==
  LET kept == SelectSeq([i \in 1..Len(n.children) |-> i],
                        LAMBDA i : (path \o <<i>>) \notin idset)
  IN [n EXCEPT !.children =
        [j \in 1..Len(kept) |->
           DetachAll(n.children[kept[j]], path \o <<kept[j]>>, idset)]]

\* trim_non_el_text's inner without the recursion into the Elements.
NonElTextIdsShallow(n, path) ==
  {path \o <<i>> : i \in {j \in 1..Len(n.children) :
                             n.children[j].kind \notin {"Element", "Text"}}}

\* trim_non_el_text's inner: the ids of the children that are neither an
\* Element nor a Text, recursing into the Elements only.
RECURSIVE NonElTextIds(_, _)
NonElTextIds(n, path) ==
  UNION {LET child == n.children[i]
         IN IF child.kind = "Element" THEN NonElTextIds(child, path \o <<i>>)
            ELSE IF child.kind = "Text" THEN {}
            ELSE {path \o <<i>>}
           : i \in 1..Len(n.children)}

\* The tree after the loop that detaches every id of the set.
Detached(t, idset) ==
  [t EXCEPT !.children[1] = DetachAll(GetHtml(t), <<>>, idset)]

\* What trim_insignificant's inner does with a first or a last child:
\* its id if it is a Text whose trimmed content is empty, nothing for an
\* Element, unreachable!() for anything else.
EdgeIds(child, id) ==
  IF child.kind = "Text" /\ Trim(child.text) = <<>> THEN {id} ELSE {}

EdgeUnreachable(child) == child.kind \notin {"Text", "Element"}

\* trim_insignificant's inner without the look at the last child.
RECURSIVE InsignificantIdsFirstOnly(_, _)
InsignificantIdsFirstOnly(n, path) ==
  LET len == Len(n.children)
      first == IF len = 0 THEN {} ELSE EdgeIds(n.children[1], path \o <<1>>)
  IN first
       \cup UNION {InsignificantIdsFirstOnly(n.children[i], path \o <<i>>) : i \in 1..len}

\* trim_insignificant's inner: the ids to detach below n.
RECURSIVE InsignificantIds(_, _)
InsignificantIds(n, path) ==
  LET len == Len(n.children)
      first == IF len = 0 THEN {} ELSE EdgeIds(n.children[1], path \o <<1>>)
      last == IF len = 0 THEN {} ELSE EdgeIds(n.children[len], path \o <<len>>)
  IN first \cup last
       \cup UNION {InsignificantIds(n.children[i], path \o <<i>>) : i \in 1..len}

\* Whether trim_insignificant's inner reaches one of its unreachable!() arms.
RECURSIVE InsignificantUnreachable(_)
InsignificantUnreachable(n) ==
  LET len == Len(n.children)
  IN \/ len > 0 /\ (EdgeUnreachable(n.children[1]) \/ EdgeUnreachable(n.children[len]))
     \/ \E i \in 1..len : InsignificantUnreachable(n.children[i])

\* filter_node_text: the node visibility filter.
FilterNodeText(el, trm) ==
  IF el.kind = "Element" THEN TRUE
  ELSE IF el.kind = "Text"
       THEN (IF trm THEN Trim(el.text) # <<>> ELSE el.text # <<>>)
       ELSE FALSE

\* is_escape
IsEscape(node) == node.kind = "Element" /\ node.name = "escape"

\* node.children().filter(|t| filter_node_text(t, trim)): the indices of
\* the children that pass the filter, in order.
Survivors(node, trm) ==
  SelectSeq([i \in 1..Len(node.children) |-> i],
            LAMBDA i : FilterNodeText(node.children[i], trm))

(***************************************************************************)
(* Emitted text.  The output is a sequence of pieces, one per write:       *)
(*   indent  the Indenter's depth (two spaces each) written before it      *)
(*   body    the format string, with {} where an argument goes             *)
(*   tag     the tag name argument ("" when there is none)                 *)
(*   text    the text argument, before escape_debug (<<>> when none)       *)
(*   comma   whether the trailing separator "," was written                *)
(*   nl      whether the write ends the line (writeln!) or not (write!)    *)
(***************************************************************************)
Piece(i, b, tg, tx, c, n) ==
  [indent |-> i, body |-> b, tag |-> tg, text |-> tx, comma |-> c, nl |-> n]

\* Indenter::writeln of a fixed string.
IndentLine(i, b) == Piece(i, b, "", <<>>, FALSE, TRUE)

OpenElementBody == "::dominator::html!(\"{}\", {"
CloseElementBody == "})"
TextBody == "::dominator::text(\"{}\")"
ChildBody == ".child("
ChildEndBody == ")"
ChildrenBody == ".children(&mut ["
ChildrenEndBody == "])"
VerbatimBody == "{}"

\* The result of a format_node call: what it wrote, how it ended ("ok", or
\* "panic" for a panic!/unwrap on None, or "unreachable" for the
\* unreachable!() arm), and the calls made, itself included.
Result(o, st, cs) == [out |-> o, status |-> st, calls |-> cs]

Call(path, node, ind, trail_comma, o, st) ==
  [path |-> path, node |-> node, indent |-> ind, trail_comma |-> trail_comma,
   out |-> o, status |-> st]

\* The escape hatch of format_node: the first child's text, line by line,
\* written without indentation and without the trailing separator.
VerbatimLines(lines) ==
  Result([k \in 1..Len(lines) |-> Piece(0, VerbatimBody, "", lines[k], FALSE, TRUE)],
         "ok", {})

FormatEscape(node) ==
  IF node.children = <<>> THEN Result(<<>>, "panic", {})
  ELSE IF node.children[1].kind # "Text" THEN Result(<<>>, "panic", {})
  ELSE VerbatimLines(Lines(node.children[1].text))

\* The Text arm of format_node, txt being the content with the flag applied.
TextLine(txt, ind, trail_comma) ==
  IF txt # <<>> THEN <<Piece(ind, TextBody, "", txt, trail_comma, TRUE)>>
  ELSE <<>>

\* The Text arm without the trim flag applied.
FormatTextUntrimmed(node, ind, trail_comma, trm) ==
  Result(TextLine(node.text, ind, trail_comma), "ok", {})

FormatText(node, ind, trail_comma, trm) ==
  Result(TextLine(IF trm THEN Trim(node.text) ELSE node.text, ind, trail_comma), "ok", {})

\* The ? operator between two writes: what follows r runs only if r ended
\* "ok"; the output so far stays written either way.
AndThen(r, rest) ==
  IF r.status # "ok" THEN r
  ELSE Result(r.out \o rest.out, rest.status, r.calls \cup rest.calls)

\* A fixed line at depth ind.
WriteLine(ind, b) == Result(<<IndentLine(ind, b)>>, "ok", {})

\* A clause: its opening line, its content r, then its closing line.
Clause(ind, openBody, r, closeBody) ==
  AndThen(WriteLine(ind, openBody), AndThen(r, WriteLine(ind, closeBody)))

\* The call r of format_node, added to the log of the calls it made.
Logged(r, path, node, ind, trail_comma) ==
  Result(r.out, r.status,
         r.calls \cup {Call(path, node, ind, trail_comma, r.out, r.status)})

\* format_node(node, indenter, trail_comma, trim, f); path names the node.
RECURSIVE FormatNode(_, _, _, _, _)

\* The loop over child_iter of format_node's children list: the survivors
\* from position k on, each with has_more = whether a survivor follows.
RECURSIVE FormatChildren(_, _, _, _, _, _)
FormatChildren(node, path, surv, k, ind, trm) ==
  IF k > Len(surv) THEN Result(<<>>, "ok", {})
  ELSE AndThen(FormatNode(node.children[surv[k]], path \o <<surv[k]>>, ind,
                          k < Len(surv), trm),
               FormatChildren(node, path, surv, k + 1, ind, trm))

\* What format_node writes for an element other than escape: the opening
\* line, the children clause chosen by child_count, the closing line with
\* the trailing separator.  (The model's elements carry no class, style
\* or other attribute.)
FormatElement(node, path, ind, trail_comma, trm) ==
  AndThen(
    Result(<<Piece(ind, OpenElementBody, node.name, <<>>, FALSE, TRUE)>>, "ok", {}),
    AndThen(
      IF Len(node.children) = 0 THEN Result(<<>>, "ok", {})
      ELSE IF Len(node.children) = 1 /\ ~IsEscape(node.children[1])
      THEN Clause(ind + 1, ChildBody,
                  FormatNode(node.children[1], path \o <<1>>, ind + 2, FALSE, trm),
                  ChildEndBody)
      ELSE Clause(ind + 1, ChildrenBody,
                  FormatChildren(node, path, Survivors(node, trm), 1, ind + 2, trm),
                  ChildrenEndBody),
      Result(<<Piece(ind, CloseElementBody, "", <<>>, trail_comma, TRUE)>>, "ok", {})))

FormatNode(node, path, ind, trail_comma, trm) ==
  Logged(IF node.kind = "Element"
         THEN IF node.name = "escape" THEN FormatEscape(node)
              ELSE FormatElement(node, path, ind, trail_comma, trm)
         ELSE IF node.kind = "Text" THEN FormatText(node, ind, trail_comma, trm)
         ELSE Result(<<>>, "unreachable", {}),
         path, node, ind, trail_comma)

\* AsHtml's fmt: "[" and "]" around the survivors when there are two or more.
Bracket(len, b) ==
  Result(IF len > 1 THEN <<Piece(0, b, "", <<>>, FALSE, FALSE)>> ELSE <<>>, "ok", {})

\* AsHtml's fmt with len counted over all the children, visible or not.
AsHtmlFmtCountingAll(t, trm) ==
  AndThen(Bracket(Len(GetHtml(t).children), "["),
    AndThen(FormatChildren(GetHtml(t), <<>>, Survivors(GetHtml(t), trm), 1, 0, trm),
            Bracket(Len(GetHtml(t).children), "]")))

AsHtmlFmt(t, trm) ==
  AndThen(Bracket(Len(Survivors(GetHtml(t), trm)), "["),
    AndThen(FormatChildren(GetHtml(t), <<>>, Survivors(GetHtml(t), trm), 1, 0, trm),
            Bracket(Len(Survivors(GetHtml(t), trm)), "]")))

(***************************************************************************)
(* The Markdown emitter: StaticMarkdownWriter of src/src/markdown.rs.      *)
(*                                                                         *)
(* indent is a u32.  A u32 is held as two 16-bit halves so that its        *)
(* largest value can be written down.                                      *)
(***************************************************************************)
Limb == 2 ^ 16

U32(n) == [hi |-> n \div Limb, lo |-> n % Limb]

U32Max == [hi |-> Limb - 1, lo |-> Limb - 1]

\* v + 1 modulo 2^32: what self.indent += 1 and self.indent + 1 compute
\* when the build does not check overflow.
WrappingAddOne(v) ==
  IF v.lo < Limb - 1 THEN [hi |-> v.hi, lo |-> v.lo + 1]
  ELSE IF v.hi < Limb - 1 THEN [hi |-> v.hi + 1, lo |-> 0]
  ELSE U32(0)

\* A decrement that is left out.
NoDecrement(v) == v

\* v - 1 modulo 2^32: what self.indent -= 1 computes when the build does
\* not check overflow.
WrappingSubOne(v) ==
  IF v.lo > 0 THEN [hi |-> v.hi, lo |-> v.lo - 1]
  ELSE IF v.hi > 0 THEN [hi |-> v.hi - 1, lo |-> Limb - 1]
  ELSE U32Max

(***************************************************************************)
(* The HTML pipeline: from_str (parse, pass 1, pass 2), then as_html.      *)
(***************************************************************************)
\* Html::parse_fragment starts from a Fragment root whose only child is
\* the <html> element.
InitHtml ==
  /\ tree = MkNode("Fragment", "", <<>>, <<MkNode("Element", "html", <<>>, <<>>)>>)
  /\ trim = FALSE
  /\ pc = "parsing"
  /\ out = <<>>
  /\ calls = {}
  /\ ids = {}
  \* the Markdown emitter does not run
  /\ indent = U32(0)
  /\ overflow_checks = FALSE
  /\ md = "idle"
  /\ event = [type |-> "None", tag |-> "", arg |-> ""]
  /\ written = <<>>
  /\ open = <<>>
  /\ unmatched = FALSE
  /\ nOpened = 0
  /\ nClosed = 0

\* The tree builder adds the next node of the input, in document order,
\* to one of the elements that are still open.
ParserAppend ==
  /\ pc = "parsing"
  /\ NodeCount(GetHtml(tree)) < MaxNodes
  /\ \E d \in 0..MaxNodes, new \in Leaves :
       /\ CanAppend(GetHtml(tree), d, new)
       /\ tree' = [tree EXCEPT !.children[1] = AppendTo(@, d, new)]
  /\ UNCHANGED <<trim, pc, out, calls, ids>>
  /\ UNCHANGED mdVars

\* from_str(input, trim): parse_fragment has returned, html.errors is
\* empty and the StaticDom is built with the caller's flag.  (With errors
\* from_str returns Err and nothing is normalized or emitted.)
FromStr ==
  /\ pc = "parsing"
  /\ \E t \in BOOLEAN : trim' = t
  /\ pc' = "parsed"
  /\ UNCHANGED <<tree, out, calls, ids>>
  /\ UNCHANGED mdVars

\* from_str: out.trim_non_el_text()
TrimNonElText ==
  /\ pc = "parsed"
  /\ ids' = NonElTextIds(GetHtml(tree), <<>>)
  /\ tree' = Detached(tree, ids')
  /\ pc' = "pass1"
  /\ UNCHANGED <<trim, out, calls>>
  /\ UNCHANGED mdVars

\* from_str: out.trim_insignificant()
TrimInsignificant ==
  /\ pc = "pass1"
  /\ IF InsignificantUnreachable(GetHtml(tree))
     THEN pc' = "unreachable" /\ UNCHANGED <<tree, ids>>
     ELSE /\ pc' = "normalized"
          /\ ids' = InsignificantIds(GetHtml(tree), <<>>)
          /\ tree' = Detached(tree, ids')
  /\ UNCHANGED <<trim, out, calls>>
  /\ UNCHANGED mdVars

\* write!(out, "{}", parsed.as_html())
AsHtml ==
  /\ pc = "normalized"
  /\ out' = AsHtmlFmt(tree, trim).out
  /\ calls' = AsHtmlFmt(tree, trim).calls
  /\ pc' = IF AsHtmlFmt(tree, trim).status = "ok" THEN "emitted"
           ELSE AsHtmlFmt(tree, trim).status
  /\ UNCHANGED <<tree, trim, ids>>
  /\ UNCHANGED mdVars

NextHtml == ParserAppend \/ FromStr \/ TrimNonElText \/ TrimInsignificant \/ AsHtml

SpecHtml == InitHtml /\ [][NextHtml]_vars

(***************************************************************************)
(* The events of the Markdown emitter and what it writes for them.         *)
(***************************************************************************)
\* Pulldown-cmark's Tag variants.  Heading carries a level, List an
\* optional start number, Link and Image a destination and a title.
Tags ==
  {"Paragraph", "Heading", "BlockQuote", "CodeBlock", "List", "Item",
   "FootnoteDefinition", "Table", "TableHead", "TableRow", "TableCell",
   "Emphasis", "Strong", "Strikethrough", "Link", "Image"}

HeadingLevels == {"H1", "H2", "H3", "H4", "H5", "H6"}

\* List(None), and List(Some(3)) with the number as it is displayed.
ListStarts == {"None", "3"}

TagArgs(tag) ==
  IF tag = "Heading" THEN HeadingLevels
  ELSE IF tag = "List" THEN ListStarts
  ELSE IF tag \in {"Link", "Image"} THEN {"dest"}
  ELSE {""}

\* The title of a Link or an Image.
Title == "title"

\* Events that are neither Start nor End, with their payloads.
LeafEvents ==
  {[type |-> "Text", tag |-> "", arg |-> "text"],
   [type |-> "Code", tag |-> "", arg |-> "code"],
   [type |-> "Html", tag |-> "", arg |-> "html"],
   [type |-> "FootnoteReference", tag |-> "", arg |-> "note"],
   [type |-> "SoftBreak", tag |-> "", arg |-> ""],
   [type |-> "HardBreak", tag |-> "", arg |-> ""],
   [type |-> "Rule", tag |-> "", arg |-> ""],
   [type |-> "TaskListMarker", tag |-> "", arg |-> "true"],
   [type |-> "TaskListMarker", tag |-> "", arg |-> "false"]}

conv_heading(level) ==
  CASE level = "H1" -> "h1"
    [] level = "H2" -> "h2"
    [] level = "H3" -> "h3"
    [] level = "H4" -> "h4"
    [] level = "H5" -> "h5"
    [] level = "H6" -> "h6"

\* One write of the emitter: the u32 given to indent() (two spaces each;
\* zero when the format string has no indent), the format string with {}
\* where the argument goes, the argument before escape_debug, and whether
\* the write ends the line.
MdPiece(i, b, a, n) == [indent |-> i, body |-> b, arg |-> a, nl |-> n]

MdCloseBody == "})"
MdTextBody == ".text(\"{}\")"

\* The format strings of the opening container lines of fmt_start_event.
MdOpenBody(tag) ==
  CASE tag = "Paragraph" -> ".child(::dominator::html!(\"p\"), {"
    [] tag = "Heading" -> ".child(::dominator::html!(\"{}\", {"
    [] tag = "BlockQuote" -> ".child(::dominator::html!(\"pre\"), {"
    [] tag = "CodeBlock" -> ".child(::dominator::html!(\"code\"), {"
    [] tag = "List" -> ".child(::dominator::html!(\"ul\"), {"
    [] tag = "Item" -> ".child(::dominator::html!(\"li\"), {"
    [] tag = "Link" -> ".child(::dominator::html(\"a\"), {"
    [] tag = "Image" -> ".child(::dominator::html(\"img\"), {"

\* The writes of fmt_start_event's match, in order; ind is self.indent and
\* ind1 is self.indent + 1.
StartWrites(tag, arg, ind, ind1) ==
  CASE tag = "Paragraph" -> <<MdPiece(U32(0), MdOpenBody(tag), "", TRUE)>>
    [] tag = "Heading" -> <<MdPiece(ind, MdOpenBody(tag), conv_heading(arg), TRUE)>>
    [] tag = "BlockQuote" -> <<MdPiece(U32(0), MdOpenBody(tag), "", TRUE)>>
    [] tag = "CodeBlock" -> <<MdPiece(ind, MdOpenBody(tag), "", TRUE)>>
    [] tag = "List" ->
         IF arg = "None" THEN <<MdPiece(ind, MdOpenBody(tag), "", TRUE)>>
         ELSE <<MdPiece(ind, MdOpenBody(tag), "", TRUE),
                MdPiece(ind1, ".attr(\"start\", \"{}\")", arg, TRUE)>>
    [] tag = "Item" -> <<MdPiece(ind, MdOpenBody(tag), "", TRUE)>>
    [] tag = "Link" ->
         <<MdPiece(ind, MdOpenBody(tag), "", TRUE),
           MdPiece(ind1, ".attr(\"html\", \"{}\"", arg, TRUE),
           MdPiece(ind1, ".attr(\"title\", \"{}\"", Title, TRUE)>>
    [] tag = "Image" ->
         <<MdPiece(ind, MdOpenBody(tag), "", TRUE),
           MdPiece(ind1, ".attr(\"src\", \"{}\"", arg, TRUE),
           MdPiece(ind1, ".attr(\"title\", \"{}\"", Title, TRUE)>>
    [] OTHER -> <<>>

\* The writes of fmt_end_event's match; ind is self.indent after the
\* decrement.
EndWrites(tag, ind) ==
  IF tag \in {"Paragraph", "Heading", "BlockQuote", "CodeBlock", "List", "Item", "Link"}
  THEN <<MdPiece(ind, MdCloseBody, "", TRUE)>>
  ELSE <<>>

\* The writes of fmt_event's arms for the events that are neither Start
\* nor End.  Code's first format string holds a line break, so it gives
\* two lines, the second without indentation.  The two glyphs of
\* TaskListMarker are named, not drawn.
LeafWrites(e, ind, ind1) ==
  CASE e.type = "Text" -> <<MdPiece(ind, MdTextBody, e.arg, TRUE)>>
    [] e.type = "Code" ->
         <<MdPiece(ind, ".child(::dominator::html!(\"code\") {", "", TRUE),
           MdPiece(U32(0), MdCloseBody, "", TRUE),
           MdPiece(ind1, MdTextBody, e.arg, TRUE),
           MdPiece(ind, MdCloseBody, "", TRUE)>>
    [] e.type = "Rule" ->
         <<MdPiece(U32(0), ".child(::dominator::html!(\"hr\"))", "", FALSE)>>
    [] e.type = "TaskListMarker" ->
         <<MdPiece(U32(0), ".text!(\"{}\")",
                  IF e.arg = "true" THEN "checked box" ELSE "empty box", TRUE)>>
    [] OTHER -> <<>>

\* Whether evaluating self.indent + 1 for one of the writes panics: the
\* build checks overflow and the sum does not fit.
PlusOnePanics(writes, ind, ind1) ==
  /\ overflow_checks
  /\ ind = U32Max
  /\ \E k \in 1..Len(writes) : writes[k].indent = ind1 /\ ind1 # ind

\* generate_dominator: indent: 0, then fmt's loop.
InitMd ==
  /\ indent = U32(0)
  /\ overflow_checks \in BOOLEAN
  /\ md = "running"
  /\ event = [type |-> "None", tag |-> "", arg |-> ""]
  /\ written = <<>>
  /\ open = <<>>
  /\ unmatched = FALSE
  /\ nOpened = 0
  /\ nClosed = 0
  \* the HTML pipeline does not run
  /\ tree = MkNode("Fragment", "", <<>>, <<MkNode("Element", "html", <<>>, <<>>)>>)
  /\ trim = FALSE
  /\ pc = "idle"
  /\ out = <<>>
  /\ calls = {}
  /\ ids = {}

\* fmt_event(Event::Start(tag)) = fmt_start_event(tag): the writes of the
\* match, then self.indent += 1.  A write that fails returns the error
\* before the increment: done is the number of writes that succeed.
FmtStartEvent ==
  /\ md = "running"
  /\ Len(open) < MaxDepth
  /\ \E tag \in Tags : \E arg \in TagArgs(tag) :
       LET writes == StartWrites(tag, arg, indent, WrappingAddOne(indent))
       IN /\ writes # <<>> => nOpened < MaxOpened
          /\ event' = [type |-> "Start", tag |-> tag, arg |-> arg]
          /\ open' = Append(open, tag)
          /\ \E done \in 0..Len(writes) :
               /\ written' = SubSeq(writes, 1, done)
               /\ nOpened' = IF done > 0 THEN nOpened + 1 ELSE nOpened
               /\ IF PlusOnePanics(writes, indent, WrappingAddOne(indent))
                  THEN done = 1 /\ md' = "panicked" /\ UNCHANGED indent
                  ELSE IF done < Len(writes)
                  THEN md' = "ioerror" /\ UNCHANGED indent
                  ELSE IF overflow_checks /\ indent = U32Max
                  THEN md' = "panicked" /\ UNCHANGED indent
                  ELSE md' = "running" /\ indent' = WrappingAddOne(indent)
  /\ UNCHANGED <<overflow_checks, unmatched, nClosed>>
  /\ UNCHANGED htmlVars

\* The tags an End event can carry: the tag of the innermost open Start,
\* or any tag when no Start is open (an End that nothing matches; the
\* streams of the model hold at most one such End).
EndTags ==
  IF open # <<>> THEN {open[Len(open)]}
  ELSE IF unmatched THEN {} ELSE Tags

\* fmt_event(Event::End(tag)) = fmt_end_event(tag): self.indent -= 1, then
\* the writes of the match.
FmtEndEvent ==
  /\ md = "running"
  /\ \E tag \in EndTags :
       LET writes == EndWrites(tag, WrappingSubOne(indent))
       IN /\ event' = [type |-> "End", tag |-> tag, arg |-> ""]
          /\ unmatched' = (unmatched \/ open = <<>>)
          /\ open' = IF open = <<>> THEN open ELSE SubSeq(open, 1, Len(open) - 1)
          /\ IF overflow_checks /\ indent = U32(0)
             THEN /\ md' = "panicked"
                  /\ written' = <<>>
                  /\ UNCHANGED <<indent, nClosed>>
             ELSE /\ indent' = WrappingSubOne(indent)
                  /\ \E done \in 0..Len(writes) :
                       /\ written' = SubSeq(writes, 1, done)
                       /\ nClosed' = IF done > 0 THEN nClosed + 1 ELSE nClosed
                       /\ md' = IF done < Len(writes) THEN "ioerror" ELSE "running"
  /\ UNCHANGED <<overflow_checks, nOpened>>
  /\ UNCHANGED htmlVars

\* fmt_event for Text, Code, Html, FootnoteReference, SoftBreak,
\* HardBreak, Rule and TaskListMarker.
FmtLeafEvent ==
  /\ md = "running"
  /\ \E e \in LeafEvents :
       LET writes == LeafWrites(e, indent, WrappingAddOne(indent))
       IN /\ event' = e
          /\ \E done \in 0..Len(writes) :
               /\ written' = SubSeq(writes, 1, done)
               /\ IF PlusOnePanics(writes, indent, WrappingAddOne(indent))
                  THEN done = 2 /\ md' = "panicked"
                  ELSE md' = IF done < Len(writes) THEN "ioerror" ELSE "running"
  /\ UNCHANGED <<indent, overflow_checks, open, unmatched, nOpened, nClosed>>
  /\ UNCHANGED htmlVars

\* fmt: parser.next() is None, Ok(()) is returned.  The stream ends with
\* no Start open.
FmtDone ==
  /\ md = "running"
  /\ open = <<>>
  /\ md' = "done"
  /\ event' = [type |-> "None", tag |-> "", arg |-> ""]
  /\ written' = <<>>
  /\ UNCHANGED <<indent, overflow_checks, open, unmatched, nOpened, nClosed>>
  /\ UNCHANGED htmlVars

NextMd == FmtStartEvent \/ FmtEndEvent \/ FmtLeafEvent \/ FmtDone

SpecMd == InitMd /\ [][NextMd]_vars

(***************************************************************************)
(* Properties of the HTML emitter, checked under SpecHtml.                 *)
(***************************************************************************)
\* The top-level children that pass the visibility filter.
VisibleTop == Survivors(GetHtml(tree), trim)

\* The output is a sequence literal: it starts with "[" and ends with "]".
Wrapped(o) ==
  /\ Len(o) >= 2
  /\ o[1] = Piece(0, "[", "", <<>>, FALSE, FALSE)
  /\ o[Len(o)] = Piece(0, "]", "", <<>>, FALSE, FALSE)

\* The format_node call of the log made for the node with this path.
CallsAt(path) == {c \in calls : c.path = path}

\* C1: when as_html has written its output, the output is wrapped in a
\* sequence literal if and only if two or more top-level children pass the
\* visibility filter; with exactly one visible child the output is what
\* format_node wrote for that child, unwrapped; with none it is empty.
C1_WrappedIffTwoOrMoreVisible ==
  pc = "emitted" =>
    /\ Wrapped(out) <=> Len(VisibleTop) >= 2
    /\ Len(VisibleTop) = 1 =>
         \E c \in CallsAt(<<VisibleTop[1]>>) :
           c.trail_comma = FALSE /\ c.indent = 0 /\ out = c.out /\ out # <<>>
    /\ Len(VisibleTop) = 0 => out = <<>>

\* C1's case: three top-level children of which two are visible, wrapped.
C1_Witness ==
  /\ pc = "emitted"
  /\ Len(GetHtml(tree).children) > Len(VisibleTop)
  /\ Len(VisibleTop) = 2
  /\ Wrapped(out)

\* The children clause a format_node call wrote for an element: the write
\* that follows the opening line.
ClauseWritten(c) ==
  IF Len(c.out) >= 2 /\ c.out[2] = IndentLine(c.indent + 1, ChildBody) THEN "child"
  ELSE IF Len(c.out) >= 2 /\ c.out[2] = IndentLine(c.indent + 1, ChildrenBody)
  THEN "children"
  ELSE "none"

\* The children clause the number of visible children calls for.
ClauseByVisible(node) ==
  IF Len(Survivors(node, trim)) = 0 THEN "none"
  ELSE IF Len(Survivors(node, trim)) = 1
            /\ ~IsEscape(node.children[Survivors(node, trim)[1]])
  THEN "child"
  ELSE "children"

\* C2: for every element other than escape that format_node formats, the
\* children clause is chosen by the number of children that pass the
\* visibility filter: none for zero, .child( for one that is not an
\* escape element, .children(&mut [ otherwise.
C2_ClauseChosenByVisibleChildren ==
  \A c \in calls :
    (c.node.kind = "Element" /\ c.node.name # "escape")
      => ClauseWritten(c) = ClauseByVisible(c.node)

\* Whether a sibling after the node with this path passes the filter.
HasLaterVisibleSibling(path) ==
  LET parent == NodeAt(GetHtml(tree), SubSeq(path, 1, Len(path) - 1))
  IN \E j \in (path[Len(path)] + 1)..Len(parent.children) :
       FilterNodeText(parent.children[j], trim)

\* C3: what format_node wrote for a visible child ends with the trailing
\* separator exactly when a visible sibling follows it, whether the child
\* is an element, a text or an escape element.
C3_TrailingCommaUnlessLast ==
  \A c \in calls :
    (c.status = "ok" /\ FilterNodeText(c.node, trim))
      => /\ c.out # <<>>
         /\ c.out[Len(c.out)].comma = HasLaterVisibleSibling(c.path)

\* The children of an escape element are exactly one Text node.
ExactlyOneText(node) ==
  Len(node.children) = 1 /\ node.children[1].kind = "Text"

\* C4: formatting an escape element whose children are not exactly one
\* Text node aborts emission.
C4_MalformedEscapeAborts ==
  \A c \in calls :
    (IsEscape(c.node) /\ ~ExactlyOneText(c.node)) => c.status = "panic"

\* p is s with its leading and trailing whitespace removed.
IsStripped(p, s) ==
  \E i \in 1..(Len(s) + 1) : \E j \in 0..Len(s) :
    /\ p = SubSeq(s, i, j)
    /\ \A k \in 1..Len(s) : (k < i \/ k > j) => s[k] \in Whitespace
    /\ p # <<>> => (p[1] \notin Whitespace /\ p[Len(p)] \notin Whitespace)

\* C5: for every Text node format_node formats, a text line is written
\* if and only if the payload is not empty, where the payload is the
\* content itself with the trim flag off and the content without its
\* leading and trailing whitespace with the flag on; the line carries that
\* payload; and a line is written exactly when filter_node_text accepts
\* the node.
C5_TextPayloadAndVisibility ==
  \A c \in calls :
    c.node.kind = "Text" =>
      /\ Len(c.out) <= 1
      /\ \A k \in 1..Len(c.out) :
           /\ c.out[k].body = TextBody
           /\ c.out[k].indent = c.indent
           /\ c.out[k].text # <<>>
           /\ IF trim THEN IsStripped(c.out[k].text, c.node.text)
              ELSE c.out[k].text = c.node.text
      /\ c.out = <<>> =>
           (IF trim THEN IsStripped(<<>>, c.node.text) ELSE c.node.text = <<>>)
      /\ (c.out # <<>>) <=> FilterNodeText(c.node, trim)

\* C5's case: with the flag on, a text line whose payload is shorter than
\* the node's content.
C5_Witness ==
  \E c \in calls :
    /\ c.node.kind = "Text"
    /\ trim
    /\ c.out # <<>>
    /\ c.out[1].text # c.node.text

\* Every node below n is an Element or a Text.
RECURSIVE OnlyElementsAndText(_)
OnlyElementsAndText(n) ==
  \A i \in 1..Len(n.children) :
    /\ n.children[i].kind \in {"Element", "Text"}
    /\ OnlyElementsAndText(n.children[i])

\* C10: from pass 1 on, every node attached below the root is an Element
\* or a Text node, and neither pass 2 nor format_node reaches its
\* unreachable!() arm.
C10_OnlyElementsAndTextAfterPass1 ==
  /\ pc \in {"pass1", "normalized", "emitted", "panic"}
       => OnlyElementsAndText(GetHtml(tree))
  /\ pc # "unreachable"
  /\ \A c \in calls : c.status # "unreachable"

\* C10's case: pass 1 has just detached a node that was nested in an
\* element.
C10_Witness ==
  /\ pc = "pass1"
  /\ \E id \in ids : Len(id) >= 2

\* A Text node whose trimmed content is empty.
IsBlankText(node) == node.kind = "Text" /\ Trim(node.text) = <<>>

\* Neither n nor an element below it has a first or a last child that is
\* a Text whose trimmed content is empty.
RECURSIVE NoBlankEdge(_)
NoBlankEdge(n) ==
  LET len == Len(n.children)
  IN /\ len > 0 => (~IsBlankText(n.children[1]) /\ ~IsBlankText(n.children[len]))
     /\ \A i \in 1..len : NoBlankEdge(n.children[i])

\* C11 as stated: after normalization no element, the root element
\* included, has a first or a last child that is a Text whose trimmed
\* content is empty, and the edge whitespace pruning pass run again would
\* detach nothing.
C11_NoBlankEdgeAfterNormalization ==
  pc \in {"normalized", "emitted", "panic"}
    => /\ NoBlankEdge(GetHtml(tree))
       /\ InsignificantIds(GetHtml(tree), <<>>) = {}

\* m is n after one look at the two edges of every element: the children
\* of m are the children of n without the first one if it is a blank Text
\* and without the last one if it is a blank Text, in the same order, each
\* of them related in the same way.
RECURSIVE PrunedOnce(_, _)
PrunedOnce(n, m) ==
  LET len == Len(n.children)
      lo == IF len > 0 /\ IsBlankText(n.children[1]) THEN 2 ELSE 1
      hi == IF len > 0 /\ IsBlankText(n.children[len]) THEN len - 1 ELSE len
      left == IF hi >= lo THEN hi - lo + 1 ELSE 0
  IN /\ m.kind = n.kind /\ m.name = n.name /\ m.text = n.text
     /\ Len(m.children) = left
     /\ \A i \in 1..left : PrunedOnce(n.children[lo + i - 1], m.children[i])

\* C11 amended: pass 2 looks once at the first and at the last child of
\* every element of the tree pass 1 left, and detaches exactly those that
\* are a Text whose trimmed content is empty; every other node stays, in
\* order.  A blank Text therefore stays as a first or last child exactly
\* where pass 1 left another blank Text between it and the edge.
C11_EdgesPrunedOnce ==
  [][(pc = "pass1" /\ pc' = "normalized")
       => PrunedOnce(GetHtml(tree), GetHtml(tree'))]_vars

\* C11's case: pass 2 has detached a blank Text from an edge and the node
\* that has become the edge is a blank Text too.
C11_Witness ==
  /\ pc = "normalized"
  /\ ids # {}
  /\ ~NoBlankEdge(GetHtml(tree))
(***************************************************************************)
(* Properties of the Markdown emitter, checked under SpecMd.               *)
(***************************************************************************)
\* The emitter has consumed a balanced prefix of a stream and no write
\* has failed.
Balanced == md \in {"running", "done"} /\ ~unmatched

\* C6: over a balanced event stream the indent counter equals, after
\* every event, the number of Start events not yet closed, whatever the
\* tags and with events that are neither Start nor End leaving it alone;
\* the emitter does not panic, and the counter is 0 when the stream ends.
C6_IndentCountsOpenStarts ==
  /\ Balanced => indent = U32(Len(open))
  /\ (md = "done" /\ ~unmatched) => indent = U32(0)
  /\ ~unmatched => md # "panicked"

\* C6's case: a Text event inside a Start that writes nothing, itself
\* inside another Start.
C6_Witness ==
  /\ Balanced
  /\ Len(open) = 2
  /\ open[2] = "Emphasis"
  /\ event.type = "Text"
  /\ indent = U32(2)

\* C7: an End event that comes while the counter is 0 is detected (the
\* emitter stops with a panic or an error), the counter never takes the
\* wrapped-around value and no line is written with an indentation
\* computed from it.
C7_EndAtZeroDetected ==
  /\ unmatched => md = "panicked"
  /\ indent # U32Max
  /\ \A k \in 1..Len(written) : written[k].indent # U32Max

\* The tags whose Start event writes an opening container line.
OpeningTags ==
  {"Paragraph", "Heading", "BlockQuote", "CodeBlock", "List", "Item", "Link", "Image"}

\* C8: the End event of a tag whose Start writes an opening container
\* line writes exactly one closing line at the indent after the
\* decrement, the End event of any other tag writes nothing, and when a
\* balanced stream ends as many container lines were closed as opened.
C8_EveryOpenedContainerClosed ==
  /\ (Balanced /\ md = "running" /\ event.type = "End") =>
       IF event.tag \in OpeningTags
       THEN written = <<MdPiece(indent, MdCloseBody, "", TRUE)>>
       ELSE written = <<>>
  /\ (Balanced /\ md = "done") => nOpened = nClosed

\* C9: every line is written after two spaces times the counter in force:
\* the value before the increment for the opening line of a Start, the
\* value after the decrement for the closing line of an End, the current
\* value for the line that Text, Code, Rule and TaskListMarker begin with.
C9_LinesIndentedByCounter ==
  (Balanced /\ md = "running" /\ written # <<>>) =>
    /\ event.type = "Start" => written[1].indent = WrappingSubOne(indent)
    /\ event.type = "End" => written[1].indent = indent
    /\ event.type \in {"Text", "Code", "Rule", "TaskListMarker"}
         => written[1].indent = indent
====
